---- MODULE Spec2Model ----
(***************************************************************************)
(* Rule generation of the proto language extension: GenerateRules and the  *)
(* functions it calls (newGenerator, buildPackages, selectPackage,         *)
(* goPackageName, RuleName, generateProto, generateEmpty,                  *)
(* checkInternalVisibility).                                               *)
(*                                                                         *)
(* Go strings are modelled as sequences of bytes.  A byte is written as a  *)
(* one-character TLA+ string ("a", "/", "."); the two bytes of the UTF-8   *)
(* encoding of U+00E9 are written "xC3" and "xA9".  Rule kinds, attribute  *)
(* names and option keys are only ever compared for equality by the code   *)
(* and are kept as atomic TLA+ strings.                                    *)
(***************************************************************************)
EXTENDS Naturals, Integers, Sequences, FiniteSets, TLC

VARIABLES
    args,        \* language.GenerateArgs with the ProtoConfig and the analysed files
    g,           \* the generator built by newGenerator
    packageMap,  \* buildPackages: partition key -> Package
    selected,    \* buildPackages: what selectPackage returned
    pkgs,        \* buildPackages: the packages rules are generated for
    logged,      \* errors printed with log.Print during the call
    empty,       \* GenerateRules: first result
    gen,         \* GenerateRules: second result
    prev,        \* the results of the previous call on the same arguments
    calls,       \* number of GenerateRules calls made so far
    names,       \* RuleName: the argument list
    derived      \* RuleName: the result

vars == <<args, g, packageMap, selected, pkgs, logged, empty, gen, prev, calls, names, derived>>

----------------------------------------------------------------------------
(* Bounds *)

MaxNames == 3     \* arguments of a RuleName call
MaxNameLen == 2   \* bytes of an enumerated RuleName argument
MaxCalls == 2     \* GenerateRules calls on the same arguments
MaxFiles == 2     \* entries of RegularFiles and of GenFiles
MaxRules == 1     \* rules of the existing build file
MaxSegs == 3      \* path segments of Rel

----------------------------------------------------------------------------
(* Byte strings *)

Str_proto == <<"p", "r", "o", "t", "o">>
DotProto == <<".">> \o Str_proto
UnderscoreProto == <<"_">> \o Str_proto
Str_root == <<"r", "o", "o", "t">>

\* The bytes of the model in increasing byte value.
ByteOrder ==
    << ".", "/", "0", "9", ":", ";", "A", "Z", "_",
       "a", "b", "c", "d", "e", "g", "h", "i", "k", "l", "m", "n", "o", "p",
       "r", "s", "t", "u", "v", "x", "y", "z", "xA9", "xC3" >>

Code(c) == CHOOSE i \in 1..Len(ByteOrder) : ByteOrder[i] = c

Between(lo, c, hi) ==
    /\ \E i \in 1..Len(ByteOrder) : ByteOrder[i] = c
    /\ Code(lo) <= Code(c)
    /\ Code(c) <= Code(hi)

\* Go's < on strings: lexicographic on bytes.
RECURSIVE StrLess(_, _)
StrLess(a, b) ==
    IF b = <<>> THEN FALSE
    ELSE IF a = <<>> THEN TRUE
    ELSE IF a[1] = b[1] THEN StrLess(Tail(a), Tail(b))
    ELSE Code(a[1]) < Code(b[1])

\* s[i:] with Go's 0-based index.
From(s, i) == SubSeq(s, i + 1, Len(s))
\* s[:i]
Upto(s, i) == SubSeq(s, 1, i)

HasPrefix(s, p) == Len(s) >= Len(p) /\ Upto(s, Len(p)) = p
HasSuffix(s, p) == Len(s) >= Len(p) /\ From(s, Len(s) - Len(p)) = p
TrimSuffix(s, p) == IF HasSuffix(s, p) THEN Upto(s, Len(s) - Len(p)) ELSE s

\* strings.IndexByte / strings.LastIndexByte: 0-based, -1 when absent.
IndexByte(s, c) ==
    IF \E i \in 1..Len(s) : s[i] = c
    THEN (CHOOSE i \in 1..Len(s) : s[i] = c /\ \A j \in 1..(i - 1) : s[j] # c) - 1
    ELSE -1

LastIndexByte(s, c) ==
    IF \E i \in 1..Len(s) : s[i] = c
    THEN (CHOOSE i \in 1..Len(s) : s[i] = c /\ \A j \in (i + 1)..Len(s) : s[j] # c) - 1
    ELSE -1

\* strings.LastIndex(s, sub): 0-based start of the last occurrence, -1 when absent.
OccursAt(s, sub, i) == i + Len(sub) <= Len(s) /\ SubSeq(s, i + 1, i + Len(sub)) = sub
LastIndex(s, sub) ==
    IF \E i \in 0..Len(s) : OccursAt(s, sub, i)
    THEN CHOOSE i \in 0..Len(s) :
            OccursAt(s, sub, i) /\ \A j \in (i + 1)..Len(s) : ~OccursAt(s, sub, j)
    ELSE -1

\* strings.Replace(s, old, new, -1) for a one-byte old and new.
ReplaceAll(s, old, new) == [i \in 1..Len(s) |-> IF s[i] = old THEN new ELSE s[i]]

\* utf8.DecodeLastRuneInString on s[:i], i > 0: the last rune and its width.
\* The only multi-byte encoding over the model's bytes is C3 A9 (U+00E9); a
\* lone "xC3" or "xA9" decodes as RuneError of width 1.
LastRuneWidth(s, i) == IF i >= 2 /\ s[i] = "xA9" /\ s[i - 1] = "xC3" THEN 2 ELSE 1
LastRune(s, i) ==
    IF LastRuneWidth(s, i) = 2 THEN "U+00E9"
    ELSE IF s[i] \in {"xA9", "xC3"} THEN "U+FFFD"
    ELSE s[i]

\* All sequences over S of length at most n.
SeqsUpTo(S, n) == UNION {[1..k -> S] : k \in 0..n}

\* All orders in which a Go map with key set S may be iterated.
Perms(S) == {p \in [1..Cardinality(S) -> S] : \A i, j \in DOMAIN p : i # j => p[i] # p[j]}

----------------------------------------------------------------------------
(* RuleName *)

notIdent(c) ==
    ~(\/ Between("A", c, "Z")
      \/ Between("a", c, "z")
      \/ Between("0", c, "9")
      \/ c = "_")

\* strings.LastIndexFunc(name, notIdent), scanning the runes of name[:i] from the end.
RECURSIVE LastIndexFunc(_, _)
LastIndexFunc(name, i) ==
    IF i = 0 THEN -1
    ELSE IF notIdent(LastRune(name, i)) THEN i - LastRuneWidth(name, i)
    ELSE LastIndexFunc(name, i - LastRuneWidth(name, i))

\* The name after lines 100-102.
TrimName(name) ==
    LET i == LastIndexFunc(name, Len(name))
    IN  IF i >= 0 THEN From(name, i + 1) ELSE name

RECURSIVE RuleBase(_)
RuleBase(ns) ==
    IF ns = <<>> THEN Str_root
    ELSE IF TrimName(Head(ns)) # <<>> THEN TrimName(Head(ns))
    ELSE RuleBase(Tail(ns))

RuleName(ns) == RuleBase(ns) \o UnderscoreProto

----------------------------------------------------------------------------
(* Package and FileInfo *)

\* A FileInfo is [Name, PackageName, Options, Imports]; Options is the sequence
\* of [Key, Value] pairs in the order they appear in the file.
protoFileInfo(a, name) == a.infos[name]

\* A Package is [Name, Files, Imports, Options]; Files holds the keys of the
\* Go map, Options maps an option key to its value.
newPackage(name) == [Name |-> name, Files |-> {}, Imports |-> {}, Options |-> <<>>]

RECURSIVE SetOptions(_, _)
SetOptions(options, opts) ==
    IF opts = <<>> THEN options
    ELSE SetOptions(
            [k \in DOMAIN options \cup {Head(opts).Key} |->
                IF k = Head(opts).Key THEN Head(opts).Value ELSE options[k]],
            Tail(opts))

addFile(p, info) ==
    [p EXCEPT !.Files = @ \cup {info.Name},
              !.Imports = @ \cup info.Imports,
              !.Options = SetOptions(@, info.Options)]

addGenFile(p, name) == [p EXCEPT !.Files = @ \cup {name}]

RECURSIVE addGenFiles(_, _)
addGenFiles(p, files) ==
    IF files = <<>> THEN p ELSE addGenFiles(addGenFile(p, Head(files)), Tail(files))

----------------------------------------------------------------------------
(* Configuration *)

DefaultMode == "default"
DisableMode == "disable"
PackageMode == "package"
Modes == {DefaultMode, DisableMode, PackageMode}

ShouldGenerateRules(mode) == mode \in {DefaultMode, PackageMode}

\* Config.MapKind: the configured replacement of a rule kind, else the kind.
MapKind(a, kind) == IF kind \in DOMAIN a.KindMap THEN a.KindMap[kind] ELSE kind

----------------------------------------------------------------------------
(* Rules *)

\* An existing rule is [kind, name, attrs]; attrs maps an attribute name to
\* [type, strs]: type "list" is a list literal of strings, type "expr" is any
\* other expression.
Attr(r, key) == IF key \in DOMAIN r.attrs THEN <<r.attrs[key]>> ELSE <<>>

AttrStrings(r, key) ==
    IF key \in DOMAIN r.attrs /\ r.attrs[key].type = "list"
    THEN r.attrs[key].strs
    ELSE <<>>

\* rule.NewRule with the kind mapped.
newRule(a, ruleKind, ruleName) ==
    [kind |-> MapKind(a, ruleKind), name |-> ruleName, attrs |-> <<>>, private |-> <<>>]

SetAttr(r, key, val) ==
    [r EXCEPT !.attrs = [k \in DOMAIN r.attrs \cup {key} |->
                            IF k = key THEN val ELSE r.attrs[k]]]

SetPrivateAttr(r, key, val) ==
    [r EXCEPT !.private = [k \in DOMAIN r.private \cup {key} |->
                              IF k = key THEN val ELSE r.private[k]]]

\* protoKinds: the attributes a rule of a kind needs to be non-empty.
protoKinds == [k \in {"proto_library"} |-> [NonEmptyAttrs |-> {"srcs"}]]

\* r.IsEmpty(protoKinds[r.Kind()]); a kind without an entry has no NonEmptyAttrs.
IsEmpty(r) ==
    /\ r.kind \in DOMAIN protoKinds
    /\ \A k \in protoKinds[r.kind].NonEmptyAttrs : k \notin DOMAIN r.attrs

\* sort.Strings on the elements of a set of strings.
SortStrings(S) ==
    CHOOSE p \in Perms(S) : \A i, j \in DOMAIN p : i < j => StrLess(p[i], p[j])

\* sort.SliceStable(gen, by Name).
SortStableByName(rs) ==
    LET idx == CHOOSE p \in Perms(DOMAIN rs) :
                  \A i, j \in DOMAIN p : i < j =>
                      \/ StrLess(rs[p[i]].name, rs[p[j]].name)
                      \/ rs[p[i]].name = rs[p[j]].name /\ p[i] < p[j]
    IN  [i \in DOMAIN rs |-> rs[idx[i]]]

----------------------------------------------------------------------------
(* newGenerator *)

RECURSIVE FilterProto(_)
FilterProto(files) ==
    IF files = <<>> THEN <<>>
    ELSE IF HasSuffix(Head(files), DotProto)
         THEN <<Head(files)>> \o FilterProto(Tail(files))
         ELSE FilterProto(Tail(files))

\* Lines 71-76: every .proto name of GenFiles assigns append(args.GenFiles, name),
\* so the loop leaves GenFiles followed by its last .proto name, or nil.
RECURSIVE GenProtoLoop(_, _, _)
GenProtoLoop(genFiles, rest, acc) ==
    IF rest = <<>> THEN acc
    ELSE IF HasSuffix(Head(rest), DotProto)
         THEN GenProtoLoop(genFiles, Tail(rest), Append(genFiles, Head(rest)))
         ELSE GenProtoLoop(genFiles, Tail(rest), acc)

hasDefaultVisibility(f) ==
    /\ f.exists
    /\ \E i \in DOMAIN f.Rules :
          f.Rules[i].kind = "package" /\ Attr(f.Rules[i], "default_visibility") # <<>>

newGenerator(a) ==
    [ file |-> a.File,
      rel |-> a.Rel,
      shouldSetVisibility |-> ~a.File.exists \/ ~hasDefaultVisibility(a.File),
      regularProtoFiles |-> FilterProto(a.RegularFiles),
      genProtoFiles |-> GenProtoLoop(a.GenFiles, a.GenFiles, <<>>) ]

----------------------------------------------------------------------------
(* buildPackages, selectPackage, goPackageName *)

\* Lines 118-126: the partition key of a file.
RECURSIVE GroupValue(_, _, _)
GroupValue(opts, groupOption, key) ==
    IF opts = <<>> THEN key
    ELSE IF Head(opts).Key = groupOption THEN Head(opts).Value
    ELSE GroupValue(Tail(opts), groupOption, key)

PartitionKey_DeclaredName(a, info) == info.PackageName

PartitionKey(a, info) ==
    IF a.groupOption # "" THEN GroupValue(info.Options, a.groupOption, info.PackageName)
    ELSE info.PackageName

\* Lines 115-131: the package map after the files have been added in order.
RECURSIVE Partition(_, _, _)
Partition(a, files, pm) ==
    IF files = <<>> THEN pm
    ELSE LET info == protoFileInfo(a, Head(files))
             key == PartitionKey(a, info)
             old == IF key \in DOMAIN pm THEN pm[key] ELSE newPackage(info.PackageName)
         IN  Partition(a, Tail(files),
                       [k \in DOMAIN pm \cup {key} |->
                           IF k = key THEN addFile(old, info) ELSE pm[k]])

Str_go_package == "go_package"

goPackageName(pkg) ==
    IF Str_go_package \in DOMAIN pkg.Options
    THEN LET opt == pkg.Options[Str_go_package]
         IN  IF IndexByte(opt, ";") >= 0 THEN From(opt, IndexByte(opt, ";") + 1)
             ELSE IF LastIndexByte(opt, "/") >= 0 THEN From(opt, LastIndexByte(opt, "/") + 1)
             ELSE opt
    ELSE IF pkg.Name # <<>> THEN ReplaceAll(pkg.Name, ".", "_")
    ELSE IF Cardinality(pkg.Files) = 1
         THEN TrimSuffix(CHOOSE f \in pkg.Files : TRUE, DotProto)
    ELSE <<>>

ErrNil == "nil"
ErrMultiple == "directory contains multiple proto packages"

Matches_NoEmptyCheck(pkg, defaultPackageName) ==
    goPackageName(pkg) = defaultPackageName

\* Line 171: whether the loop returns this package.
Matches(pkg, defaultPackageName) ==
    goPackageName(pkg) # <<>> /\ goPackageName(pkg) = defaultPackageName

\* Lines 170-175: the map is visited in the order given.
RECURSIVE SelectLoop(_, _, _)
SelectLoop(pm, order, defaultPackageName) ==
    IF order = <<>> THEN [pkg |-> <<>>, err |-> ErrMultiple]
    ELSE IF Matches(pm[Head(order)], defaultPackageName)
         THEN [pkg |-> <<pm[Head(order)]>>, err |-> ErrNil]
    ELSE SelectLoop(pm, Tail(order), defaultPackageName)

selectPackage_AlwaysCompare(rel, pm, order) ==
    IF Cardinality(DOMAIN pm) = 0 THEN [pkg |-> <<>>, err |-> ErrNil]
    ELSE SelectLoop(pm, order, ReplaceAll(rel, "/", "_"))

\* selectPackage; order is the order in which the runtime iterates packageMap.
selectPackage(rel, pm, order) ==
    IF Cardinality(DOMAIN pm) = 0 THEN [pkg |-> <<>>, err |-> ErrNil]
    ELSE IF Cardinality(DOMAIN pm) = 1 THEN [pkg |-> <<pm[order[1]]>>, err |-> ErrNil]
    ELSE SelectLoop(pm, order, ReplaceAll(rel, "/", "_"))

NotSelected == [called |-> FALSE, pkg |-> <<>>, err |-> ErrNil]

\* Lines 133-156: the packages returned, the errors logged and what
\* selectPackage returned when it was called.
buildPackages(a, gg, pm, order) ==
    IF a.Mode = DefaultMode
    THEN LET sel == selectPackage(gg.rel, pm, order)
         IN  [ pkgs |-> IF sel.pkg = <<>> THEN <<>>
                        ELSE <<addGenFiles(sel.pkg[1], gg.genProtoFiles)>>,
               logged |-> IF sel.err # ErrNil THEN <<sel.err>> ELSE <<>>,
               selected |-> [called |-> TRUE, pkg |-> sel.pkg, err |-> sel.err] ]
    ELSE IF a.Mode = PackageMode
    THEN [ pkgs |-> [i \in DOMAIN order |-> pm[order[i]]], logged |-> <<>>,
           selected |-> NotSelected ]
    ELSE [pkgs |-> <<>>, logged |-> <<>>, selected |-> NotSelected]

----------------------------------------------------------------------------
(* generateProto, checkInternalVisibility, generateEmpty *)

Str_internal == <<"i", "n", "t", "e", "r", "n", "a", "l">>
Str_subpackages ==
    <<":", "_", "_", "s", "u", "b", "p", "a", "c", "k", "a", "g", "e", "s", "_", "_">>
Str_public ==
    <<"/", "/", "v", "i", "s", "i", "b", "i", "l", "i", "t", "y", ":",
      "p", "u", "b", "l", "i", "c">>

checkInternalVisibility(rel, visibility) ==
    IF LastIndex(rel, <<"/">> \o Str_internal \o <<"/">>) >= 0
    THEN <<"/", "/">> \o Upto(rel, LastIndex(rel, <<"/">> \o Str_internal \o <<"/">>))
            \o Str_subpackages
    ELSE IF HasPrefix(rel, Str_internal \o <<"/">>)
    THEN <<"/", "/">> \o Str_subpackages
    ELSE visibility

PackageKey == "_package"
GazelleImportsKey == "_gazelle_imports"

OptionValue(pkg, key) == IF key \in DOMAIN pkg.Options THEN pkg.Options[key] ELSE <<>>

\* Lines 230-232.
RECURSIVE SetOptionAttrs(_, _, _)
SetOptionAttrs(r, pkg, keys) ==
    IF keys = {} THEN r
    ELSE LET k == CHOOSE x \in keys : TRUE
         IN  SetOptionAttrs(SetPrivateAttr(r, k, pkg.Options[k]), pkg, keys \ {k})

generateProto(a, gg, pkg) ==
    LET name == IF a.Mode = DefaultMode
                THEN RuleName(<<goPackageName(pkg), a.GoPrefix, gg.rel>>)
                ELSE RuleName(<<OptionValue(pkg, a.groupOption), pkg.Name, gg.rel>>)
        r0 == newRule(a, "proto_library", name)
        srcs == SortStrings(pkg.Files)
        r1 == IF Len(srcs) > 0 THEN SetAttr(r0, "srcs", srcs) ELSE r0
        r2 == SetPrivateAttr(r1, PackageKey, pkg)
        r3 == SetPrivateAttr(r2, GazelleImportsKey, SortStrings(pkg.Imports))
        r4 == SetOptionAttrs(r3, pkg, DOMAIN pkg.Options)
    IN  IF gg.shouldSetVisibility
        THEN SetAttr(r4, "visibility", <<checkInternalVisibility(gg.rel, Str_public)>>)
        ELSE r4

\* Lines 247-253.
knownFiles(gg) ==
    {gg.regularProtoFiles[i] : i \in DOMAIN gg.regularProtoFiles}
        \cup {gg.genProtoFiles[i] : i \in DOMAIN gg.genProtoFiles}

IsStale_AnyMissing(a, gg, r) ==
    /\ r.kind = MapKind(a, "proto_library")
    /\ ~(Len(AttrStrings(r, "srcs")) = 0 /\ Attr(r, "srcs") # <<>>)
    /\ \/ Len(AttrStrings(r, "srcs")) = 0
       \/ \E i \in DOMAIN AttrStrings(r, "srcs") :
             AttrStrings(r, "srcs")[i] \notin knownFiles(gg)

\* Lines 257-270: whether the loop appends an empty rule for r.
IsStale(a, gg, r) ==
    /\ r.kind = MapKind(a, "proto_library")
    /\ ~(Len(AttrStrings(r, "srcs")) = 0 /\ Attr(r, "srcs") # <<>>)
    /\ \A i \in DOMAIN AttrStrings(r, "srcs") : AttrStrings(r, "srcs")[i] \notin knownFiles(gg)

RECURSIVE EmptyLoop(_, _, _)
EmptyLoop(a, gg, rules) ==
    IF rules = <<>> THEN <<>>
    ELSE IF IsStale(a, gg, Head(rules))
         THEN <<newRule(a, "proto_library", Head(rules).name)>> \o EmptyLoop(a, gg, Tail(rules))
    ELSE EmptyLoop(a, gg, Tail(rules))

generateEmpty(a, gg) == IF ~gg.file.exists THEN <<>> ELSE EmptyLoop(a, gg, gg.file.Rules)

----------------------------------------------------------------------------
(* GenerateRules *)

RECURSIVE SelectRules(_, _)
SelectRules(rs, wantEmpty) ==
    IF rs = <<>> THEN <<>>
    ELSE IF IsEmpty(Head(rs)) = wantEmpty
         THEN <<Head(rs)>> \o SelectRules(Tail(rs), wantEmpty)
    ELSE SelectRules(Tail(rs), wantEmpty)

GenerateRules ==
    /\ calls < MaxCalls
    /\ calls' = calls + 1
    /\ prev' = IF calls = 0 THEN <<>>
               ELSE <<[selected |-> selected, empty |-> empty, gen |-> gen]>>
    /\ IF ~ShouldGenerateRules(args.Mode)
       THEN /\ empty' = <<>>
            /\ gen' = <<>>
            /\ logged' = <<>>
            /\ UNCHANGED <<g, packageMap, selected, pkgs>>
       ELSE LET gg == newGenerator(args)
                pm == Partition(args, gg.regularProtoFiles, <<>>)
            IN  \E order \in Perms(DOMAIN pm) :
                  LET bp == buildPackages(args, gg, pm, order)
                      rs == [i \in DOMAIN bp.pkgs |-> generateProto(args, gg, bp.pkgs[i])]
                  IN  /\ g' = gg
                      /\ packageMap' = pm
                      /\ selected' = bp.selected
                      /\ pkgs' = bp.pkgs
                      /\ logged' = bp.logged
                      /\ gen' = SortStableByName(SelectRules(rs, FALSE))
                      /\ empty' = SelectRules(rs, TRUE) \o generateEmpty(args, gg)
    /\ UNCHANGED <<args, names, derived>>

CallRuleName ==
    /\ derived = <<>>
    /\ derived' = RuleName(names)
    /\ UNCHANGED <<args, g, packageMap, selected, pkgs, logged, empty, gen, prev, calls, names>>

----------------------------------------------------------------------------
(* Inputs *)

File_a == <<"a">> \o DotProto
File_b == <<"b">> \o DotProto
File_c == <<"c">> \o DotProto
File_g == <<"g">> \o DotProto
File_gone == <<"g", "o", "n", "e">> \o DotProto
File_c_txt == <<"c", ".", "t", "x", "t">>
File_h_txt == <<"h", ".", "t", "x", "t">>

Str_a_b == <<"a", "_", "b">>
Str_a_dot_b == <<"a", ".", "b">>
Str_a_slash_b == <<"a", "/", "b">>

\* Sequences over S of length at most n without repeated elements.
DistinctSeqs(S, n) ==
    {q \in SeqsUpTo(S, n) : \A i, j \in DOMAIN q : i # j => q[i] # q[j]}

Range(q) == {q[i] : i \in DOMAIN q}

NoFile == [exists |-> FALSE, Rules |-> <<>>]

Opt(k, v) == [Key |-> k, Value |-> v]

InitOutputs ==
    /\ g = <<>>
    /\ packageMap = <<>>
    /\ selected = NotSelected
    /\ pkgs = <<>>
    /\ logged = <<>>
    /\ empty = <<>>
    /\ gen = <<>>
    /\ prev = <<>>
    /\ calls = 0

\* Directories whose .proto files declare several packages.
SelectPackageNames == {<<>>, Str_a_dot_b, Str_a_b}
SelectOptions ==
    { <<>>,
      <<Opt(Str_go_package, <<"x", "/">> \o Str_a_b)>>,
      <<Opt(Str_go_package, <<"x", "/">>)>>,
      <<Opt("grp", <<"k">>), Opt("grp", <<"j">>)>> }
SelectModes ==
    { [Mode |-> DefaultMode, groupOption |-> ""],
      [Mode |-> DefaultMode, groupOption |-> "grp"],
      [Mode |-> PackageMode, groupOption |-> "grp"] }

\* What the analyser may report for a file: a.proto and b.proto may declare
\* any of the names and options above, c.proto declares nothing.
SelectInfos(f) ==
    IF f = File_c
    THEN {[Name |-> f, PackageName |-> <<>>, Options |-> <<>>, Imports |-> {}]}
    ELSE {[Name |-> f, PackageName |-> pn, Options |-> op,
           Imports |-> IF f = File_a THEN {File_c} ELSE {}] :
            pn \in SelectPackageNames, op \in SelectOptions}

InitSelect ==
    /\ \E rel \in {<<>>, Str_a_slash_b}, m \in SelectModes,
          files \in DistinctSeqs({File_a, File_b, File_c}, MaxFiles) :
          \E infos \in [Range(files) -> UNION {SelectInfos(f) : f \in Range(files)}] :
             /\ \A f \in Range(files) : infos[f] \in SelectInfos(f)
             /\ args = [ Rel |-> rel, RegularFiles |-> files, GenFiles |-> <<>>,
                         File |-> NoFile, Mode |-> m.Mode, groupOption |-> m.groupOption,
                         GoPrefix |-> <<>>, KindMap |-> <<>>, infos |-> infos ]
    /\ InitOutputs
    /\ names = <<>>
    /\ derived = <<>>

SpecSelect == InitSelect /\ [][GenerateRules]_vars

----------------------------------------------------------------------------
(* Package selection: C1, C6, C7 *)

Candidates == {packageMap[k] : k \in DOMAIN packageMap}
NumCandidates == Cardinality(DOMAIN packageMap)
DefaultName == ReplaceAll(args.Rel, "/", "_")
SelectCalled == calls > 0 /\ selected.called

\* C1 as stated: with two or more candidates, if some candidate's guessed name
\* equals the default name, a candidate with that guessed name is returned
\* without error; otherwise nothing is returned, with the ambiguity error.
C1_AsClaimed ==
    (SelectCalled /\ NumCandidates >= 2) =>
        IF \E p \in Candidates : goPackageName(p) = DefaultName
        THEN /\ selected.err = ErrNil
             /\ selected.pkg # <<>>
             /\ selected.pkg[1] \in Candidates
             /\ goPackageName(selected.pkg[1]) = DefaultName
        ELSE selected.pkg = <<>> /\ selected.err = ErrMultiple

\* C1 amended: with two or more candidates, if some candidate's guessed name
\* is non-empty and equals the default name, a candidate with that guessed
\* name is returned without error; otherwise (no candidate's guessed name is
\* both non-empty and equal to the default name, which is always so at the
\* repository root) nothing is returned, with the ambiguity error.
C1_SelectByDefaultName ==
    (SelectCalled /\ NumCandidates >= 2) =>
        IF \E p \in Candidates : goPackageName(p) = DefaultName /\ DefaultName # <<>>
        THEN /\ selected.err = ErrNil
             /\ selected.pkg # <<>>
             /\ selected.pkg[1] \in Candidates
             /\ goPackageName(selected.pkg[1]) = DefaultName
        ELSE selected.pkg = <<>> /\ selected.err = ErrMultiple

C1_Witness ==
    /\ SelectCalled
    /\ NumCandidates >= 2
    /\ selected.pkg # <<>>
    /\ goPackageName(selected.pkg[1]) = DefaultName
    /\ \E p \in Candidates : goPackageName(p) # DefaultName

\* C6: with no candidate selectPackage returns nothing and no error; with one
\* candidate it returns that candidate and no error, whatever its name.
C6_FewCandidatesNeverFail ==
    (SelectCalled /\ NumCandidates < 2) =>
        /\ selected.err = ErrNil
        /\ NumCandidates = 0 => selected.pkg = <<>>
        /\ NumCandidates = 1 =>
              /\ selected.pkg # <<>>
              /\ \A k \in DOMAIN packageMap : selected.pkg[1] = packageMap[k]

C6_Witness ==
    /\ SelectCalled
    /\ NumCandidates = 1
    /\ selected.pkg # <<>>
    /\ goPackageName(selected.pkg[1]) # DefaultName

\* C7: two calls on the same arguments select the same package, or both fail.
C7_SelectionDeterministic ==
    (SelectCalled /\ prev # <<>>) => prev[1].selected = selected

----------------------------------------------------------------------------
(* Partitioning: C9 *)

HasGroupOption(info) ==
    args.groupOption # "" /\ \E i \in DOMAIN info.Options : info.Options[i].Key = args.groupOption

FirstGroupOption(info) ==
    info.Options[CHOOSE i \in DOMAIN info.Options :
                    /\ info.Options[i].Key = args.groupOption
                    /\ \A j \in 1..(i - 1) : info.Options[j].Key # args.groupOption]

ExpectedKey(f) ==
    IF HasGroupOption(args.infos[f]) THEN FirstGroupOption(args.infos[f]).Value
    ELSE args.infos[f].PackageName

FirstFileOfKey(k) ==
    g.regularProtoFiles[CHOOSE i \in DOMAIN g.regularProtoFiles :
                            /\ ExpectedKey(g.regularProtoFiles[i]) = k
                            /\ \A j \in 1..(i - 1) : ExpectedKey(g.regularProtoFiles[j]) # k]

Partitioned == calls > 0 /\ ShouldGenerateRules(args.Mode)

\* C9: after the regular .proto files have been processed, every file is in
\* exactly one package, namely the one under its partition key (the value of
\* the file's first option named by the grouping option when one is configured
\* and present, else the declared package name); the packages' files together
\* are the regular .proto files; every key has a package named after the
\* declared package of the first file with that key; no file gives an empty map.
C9_Partition ==
    Partitioned =>
        /\ \A f \in Range(g.regularProtoFiles) :
              /\ ExpectedKey(f) \in DOMAIN packageMap
              /\ \A k \in DOMAIN packageMap : f \in packageMap[k].Files <=> k = ExpectedKey(f)
        /\ UNION {packageMap[k].Files : k \in DOMAIN packageMap} = Range(g.regularProtoFiles)
        /\ \A k \in DOMAIN packageMap :
              /\ packageMap[k].Files # {}
              /\ packageMap[k].Name = args.infos[FirstFileOfKey(k)].PackageName
        /\ g.regularProtoFiles = <<>> => DOMAIN packageMap = {}

C9_Witness ==
    /\ Partitioned
    /\ NumCandidates = 2
    /\ \E f1, f2 \in Range(g.regularProtoFiles) :
          /\ HasGroupOption(args.infos[f1])
          /\ Len(args.infos[f1].Options) = 2
          /\ f1 \in packageMap[args.infos[f1].Options[1].Value].Files
          /\ packageMap[args.infos[f1].Options[1].Value].Name = args.infos[f1].PackageName
          /\ args.infos[f1].PackageName # args.infos[f1].Options[1].Value
          /\ ~HasGroupOption(args.infos[f2])
          /\ f2 \in packageMap[args.infos[f2].PackageName].Files

----------------------------------------------------------------------------
(* Stale-rule detection: inputs *)

Str_p == <<"p">>
Str_q == <<"q">>
MappedKind == "my_proto_library"

\* The name of the i-th rule of the existing file.
ExistingRuleName(i) == [j \in 1..i |-> "r"]

SrcsChoices ==
    { <<>>,
      [srcs |-> [type |-> "expr", strs |-> <<>>]],
      [srcs |-> [type |-> "list", strs |-> <<>>]],
      [srcs |-> [type |-> "list", strs |-> <<File_a>>]],
      [srcs |-> [type |-> "list", strs |-> <<File_h_txt>>]],
      [srcs |-> [type |-> "list", strs |-> <<File_gone>>]],
      [srcs |-> [type |-> "list", strs |-> <<File_gone, File_g>>]] }

ExistingFiles ==
    {NoFile} \cup
    { [exists |-> TRUE,
       Rules |-> [i \in DOMAIN ks |-> [kind |-> ks[i], name |-> ExistingRuleName(i),
                                       attrs |-> as[i]]]] :
        <<ks, as>> \in UNION { [1..n -> {"proto_library", MappedKind}] \X [1..n -> SrcsChoices] :
                                n \in 0..MaxRules } }

StaleInfos(files) ==
    [f \in Range(files) |->
        [Name |-> f, PackageName |-> IF f = File_a THEN Str_p ELSE Str_q,
         Options |-> <<>>, Imports |-> {}]]

InitStale ==
    /\ \E files \in DistinctSeqs({File_a, File_b, File_c_txt}, MaxFiles),
          genFiles \in DistinctSeqs({File_g, File_h_txt}, MaxFiles),
          file \in ExistingFiles,
          km \in {<<>>, [proto_library |-> MappedKind]} :
          args = [ Rel |-> Str_a_slash_b, RegularFiles |-> files, GenFiles |-> genFiles,
                   File |-> file, Mode |-> DefaultMode, groupOption |-> "",
                   GoPrefix |-> <<>>, KindMap |-> km,
                   infos |-> StaleInfos(files) ]
    /\ InitOutputs
    /\ names = <<>>
    /\ derived = <<>>

SpecStale == InitStale /\ [][GenerateRules]_vars

----------------------------------------------------------------------------
(* Stale-rule detection: C2, C8, C10, C5 *)

Generated == calls > 0 /\ ShouldGenerateRules(args.Mode)
ManagedKind == MapKind(args, "proto_library")
ExistingRules == {args.File.Rules[i] : i \in DOMAIN args.File.Rules}

\* An empty record: the mapped kind and the name, nothing else.
EmptyRecord(name) == [kind |-> ManagedKind, name |-> name, attrs |-> <<>>, private |-> <<>>]
Emitted(r) == \E i \in DOMAIN empty : empty[i].name = r.name
EmittedAsEmptyRecord(r) ==
    /\ Cardinality({i \in DOMAIN empty : empty[i].name = r.name}) = 1
    /\ \A i \in DOMAIN empty : empty[i].name = r.name => empty[i] = EmptyRecord(r.name)

PlainList(r) == "srcs" \in DOMAIN r.attrs /\ r.attrs["srcs"].type = "list"
Listed(r) == Range(r.attrs["srcs"].strs)

\* C2: a rule of the managed kind whose srcs is a plain list of strings is not
\* emitted when a listed source is a known file, and is emitted as an empty
\* record when the list is non-empty and no listed source is a known file; a
\* rule of another kind is never emitted.
C2_StaleDetection ==
    Generated =>
        \A r \in ExistingRules :
            /\ (r.kind = ManagedKind /\ PlainList(r) /\ Listed(r) \cap knownFiles(g) # {})
                  => ~Emitted(r)
            /\ (r.kind = ManagedKind /\ PlainList(r) /\ Listed(r) # {}
                    /\ Listed(r) \cap knownFiles(g) = {})
                  => EmittedAsEmptyRecord(r)
            /\ r.kind # ManagedKind => ~Emitted(r)

C2_Witness ==
    /\ Generated
    /\ knownFiles(g) # {}
    /\ \E r \in ExistingRules :
          /\ r.kind = ManagedKind
          /\ PlainList(r)
          /\ Listed(r) = {File_gone}
          /\ EmittedAsEmptyRecord(r)

\* C8: a rule of the managed kind whose srcs is present but not a plain list
\* of strings is never emitted; one whose srcs list is empty (an empty list
\* literal, or no srcs attribute) is emitted as an empty record.
C8_EmptyOrOpaqueSrcs ==
    Generated =>
        \A r \in ExistingRules :
            r.kind = ManagedKind =>
                /\ ("srcs" \in DOMAIN r.attrs /\ ~PlainList(r)) => ~Emitted(r)
                /\ ("srcs" \notin DOMAIN r.attrs \/ (PlainList(r) /\ Listed(r) = {}))
                      => EmittedAsEmptyRecord(r)

EndsInProto(name) == HasSuffix(name, DotProto)

\* C10: regularProtoFiles is the subsequence of RegularFiles ending in
\* ".proto" and genProtoFiles is the subsequence of GenFiles ending in
\* ".proto", so the known files and the files of the generated packages all
\* end in ".proto".
C10_ProtoFilesOnly ==
    Generated =>
        /\ g.regularProtoFiles = SelectSeq(args.RegularFiles, EndsInProto)
        /\ g.genProtoFiles = SelectSeq(args.GenFiles, EndsInProto)
        /\ \A f \in knownFiles(g) : EndsInProto(f)
        /\ \A i \in DOMAIN pkgs : \A f \in pkgs[i].Files : EndsInProto(f)

\* The stale-detector output for the known-file set C5 names: all regular and
\* all generated .proto files of the directory.
StaleForProtoFiles ==
    generateEmpty(args, [g EXCEPT !.regularProtoFiles = SelectSeq(args.RegularFiles, EndsInProto),
                                  !.genProtoFiles = SelectSeq(args.GenFiles, EndsInProto)])

\* C5: in default mode, when selection yields no package (no regular .proto
\* file, or the ambiguity error, which is only logged), no new rule is
\* returned and the empty rules are the stale-detector output for the
\* existing file and all regular and generated .proto files of the directory.
C5_NoPackageOnlyStale ==
    (calls > 0 /\ args.Mode = DefaultMode /\ selected.pkg = <<>>) =>
        /\ gen = <<>>
        /\ selected.err # ErrNil => logged = <<selected.err>>
        /\ empty = StaleForProtoFiles

----------------------------------------------------------------------------
(* Visibility: C4 *)

RECURSIVE Join(_)
Join(segs) ==
    IF segs = <<>> THEN <<>>
    ELSE IF Len(segs) = 1 THEN segs[1]
    ELSE segs[1] \o <<"/">> \o Join(Tail(segs))

\* The path segments of a slash-separated path; the empty path has none.
RECURSIVE Split(_)
Split(path) ==
    IF path = <<>> THEN <<>>
    ELSE IF IndexByte(path, "/") < 0 THEN <<path>>
    ELSE <<Upto(path, IndexByte(path, "/"))>> \o Split(From(path, IndexByte(path, "/") + 1))

Segments == {<<"a">>, Str_internal, <<"x">> \o Str_internal}

PackageRule(attrs) == [kind |-> "package", name |-> <<>>, attrs |-> attrs]

VisFiles ==
    { NoFile,
      [exists |-> TRUE, Rules |-> <<>>],
      [exists |-> TRUE, Rules |-> <<PackageRule(<<>>)>>],
      [exists |-> TRUE,
       Rules |-> <<PackageRule([default_visibility |->
                                   [type |-> "list", strs |-> <<Str_public>>]])>>] }

InitVis ==
    /\ \E segs \in SeqsUpTo(Segments, MaxSegs), file \in VisFiles,
          mode \in Modes :
          args = [ Rel |-> Join(segs), RegularFiles |-> <<File_a>>, GenFiles |-> <<>>,
                   File |-> file, Mode |-> mode, groupOption |-> "",
                   GoPrefix |-> <<>>, KindMap |-> <<>>,
                   infos |-> StaleInfos(<<File_a>>) ]
    /\ InitOutputs
    /\ names = <<>>
    /\ derived = <<>>

SpecVis == InitVis /\ [][GenerateRules]_vars

AmbientDefaultVisibility ==
    /\ args.File.exists
    /\ \E i \in DOMAIN args.File.Rules :
          /\ args.File.Rules[i].kind = "package"
          /\ "default_visibility" \in DOMAIN args.File.Rules[i].attrs

RelSegments == Split(args.Rel)
InternalAt(i) == i \in DOMAIN RelSegments /\ RelSegments[i] = Str_internal

\* "//<prefix>:__subpackages__" for the segments before position i.
SubpackagesOf(i) == <<"/", "/">> \o Join(SubSeq(RelSegments, 1, i - 1)) \o Str_subpackages

\* C4: without an ambient default visibility, a rule synthesized in a
\* directory with a path segment equal to "internal" (at any position) is
\* visible to the subpackages of the path before an "internal" segment, and a
\* rule synthesized elsewhere is public; with an ambient default visibility
\* no visibility attribute is set.
C4_Visibility ==
    Generated =>
        \A i \in DOMAIN gen :
            IF AmbientDefaultVisibility
            THEN "visibility" \notin DOMAIN gen[i].attrs
            ELSE /\ "visibility" \in DOMAIN gen[i].attrs
                 /\ IF \E k \in DOMAIN RelSegments : InternalAt(k)
                    THEN \E k \in DOMAIN RelSegments :
                            InternalAt(k) /\ gen[i].attrs["visibility"] = <<SubpackagesOf(k)>>
                    ELSE gen[i].attrs["visibility"] = <<Str_public>>

----------------------------------------------------------------------------
(* RuleName: C3 *)

NameBytes == {"a", "_", ".", "xC3", "xA9"}

\* The scenario of the specification: "", "my/pkg.ext", "".
ScenarioNames ==
    << <<>>, <<"m", "y", "/", "p", "k", "g", ".", "e", "x", "t">>, <<>> >>

InitRuleName ==
    /\ names \in SeqsUpTo(SeqsUpTo(NameBytes, MaxNameLen), MaxNames) \cup {ScenarioNames}
    /\ derived = <<>>
    /\ args = <<>>
    /\ InitOutputs

SpecRuleName == InitRuleName /\ [][CallRuleName]_vars

\* The characters of a string, each with the bytes that encode it.
RECURSIVE Runes(_)
Runes(s) ==
    IF s = <<>> THEN <<>>
    ELSE IF Len(s) >= 2 /\ s[1] = "xC3" /\ s[2] = "xA9"
         THEN <<[rune |-> "U+00E9", bytes |-> <<"xC3", "xA9">>]>> \o Runes(From(s, 2))
    ELSE <<[rune |-> IF s[1] \in {"xC3", "xA9"} THEN "U+FFFD" ELSE s[1], bytes |-> <<s[1]>>]>>
            \o Runes(Tail(s))

IdentChars == {"A", "Z", "a", "b", "c", "d", "e", "g", "h", "i", "k", "l", "m", "n", "o",
               "p", "r", "s", "t", "u", "v", "x", "y", "z", "0", "9", "_"}

RECURSIVE Bytes(_)
Bytes(rs) == IF rs = <<>> THEN <<>> ELSE Head(rs).bytes \o Bytes(Tail(rs))

\* The substring after the last character that is not an identifier character.
RECURSIVE IdentSuffixOf(_)
IdentSuffixOf(rs) ==
    IF rs = <<>> THEN <<>>
    ELSE IF rs[Len(rs)].rune \notin IdentChars THEN <<>>
    ELSE IdentSuffixOf(SubSeq(rs, 1, Len(rs) - 1)) \o <<rs[Len(rs)]>>

IdentSuffix(s) == Bytes(IdentSuffixOf(Runes(s)))

RECURSIVE ClaimedBase(_)
ClaimedBase(ns) ==
    IF ns = <<>> THEN Str_root
    ELSE IF IdentSuffix(Head(ns)) # <<>> THEN IdentSuffix(Head(ns))
    ELSE ClaimedBase(Tail(ns))

\* C3: RuleName returns base + "_proto", where base is the substring after
\* the last non-identifier character of the first argument for which that
\* substring is non-empty, and "root" when there is none.
C3_RuleName ==
    derived # <<>> => derived = ClaimedBase(names) \o UnderscoreProto

====
